---- MODULE Spec2Model ----
(***************************************************************************)
(* A model of src/script.js, the client-side todo list.                    *)
(*                                                                         *)
(* A page instance ("tab") owns the module-scope array `todos`, the two    *)
(* text fields and the rendered <ul>; all pages of the origin share the    *)
(* one localStorage slot STORAGE_KEY.  Every action below is one complete  *)
(* run of a handler or function of the script (JavaScript runs a handler   *)
(* to completion before the next event is dispatched).                     *)
(*                                                                         *)
(* Strings are sequences of one-character strings.  The stored text is     *)
(* the character sequence JSON.stringify produces, and JSON.parse is a     *)
(* character-level parser, for the part of JSON the model's slot contents  *)
(* use: null, {}, unsigned integers and arrays of {id,text,completed}      *)
(* objects written without white space.                                    *)
(***************************************************************************)
EXTENDS Integers, Sequences, FiniteSets, TLC

\* ---------------------------------------------------------------- bounds
\* Largest collection an add may still grow (guard of AddTask).
MaxTasks == 3
\* Date.now() when the first page starts.
StartClock == 10
\* Last value of the millisecond clock.
MaxClock == 11
\* Largest collection an add may still grow in a page of SpecTabs.
MaxTabTasks == 2

\* ---------------------------------------------------------------- state
VARIABLES
    todos,        \* per page: the array bound to `todos`
    todosType,    \* per page: the JavaScript type of the value bound to `todos`
    inputValue,   \* per page: taskInput.value
    searchValue,  \* per page: searchInput.value
    rows,         \* per page: the <li> children of taskList
    phase,        \* per page: "closed", "start" (script loaded), "ready", "crashed"
    error,        \* per page: the uncaught exception of init(), or "none"
    storage,      \* localStorage[STORAGE_KEY], shared by the pages
    now,          \* Date.now()
    last,         \* log: the last call made
    pre,          \* log: the state on entry to the last store handler
    steps,        \* log: what the last call did, in the order of its statements
    added,        \* log of the pages sharing the slot: tasks added and not removed since
    removed       \* log of the pages sharing the slot: tasks removed and not added since

vars == <<todos, todosType, inputValue, searchValue, rows, phase, error,
          storage, now, last, pre, steps, added, removed>>

Tabs == {"A", "B"}

\* ---------------------------------------------------------------- strings
WhiteSpace == {" "}

RECURSIVE TrimStart(_)
TrimStart(s) ==
    IF s = <<>> THEN s
    ELSE IF Head(s) \in WhiteSpace THEN TrimStart(Tail(s)) ELSE s

RECURSIVE TrimEnd(_)
TrimEnd(s) ==
    IF s = <<>> THEN s
    ELSE IF s[Len(s)] \in WhiteSpace THEN TrimEnd(SubSeq(s, 1, Len(s) - 1)) ELSE s

\* Mutant: the text is taken untrimmed.
Trim_Untrimmed(s) == s

\* String.prototype.trim
Trim(s) == TrimEnd(TrimStart(s))

LowerChar(c) ==
    CASE c = "A" -> "a"
      [] c = "B" -> "b"
      [] OTHER -> c

\* String.prototype.toLowerCase
ToLowerCase(s) == [i \in 1..Len(s) |-> LowerChar(s[i])]

\* String.prototype.includes
Includes(s, q) ==
    \E i \in 0..(Len(s) - Len(q)) : SubSeq(s, i + 1, i + Len(q)) = q

\* ---------------------------------------------------------------- JSON
Digits == <<"0", "1", "2", "3", "4", "5", "6", "7", "8", "9">>

IsDigit(c) == \E d \in 1..10 : Digits[d] = c

DigitVal(c) == (CHOOSE d \in 1..10 : Digits[d] = c) - 1

RECURSIVE NumberToChars(_)
NumberToChars(n) ==
    IF n < 10 THEN <<Digits[n + 1]>>
    ELSE NumberToChars(n \div 10) \o <<Digits[(n % 10) + 1]>>

RECURSIVE EscapeChars(_)
EscapeChars(s) ==
    IF s = <<>> THEN <<>>
    ELSE (IF Head(s) \in {"\"", "\\"} THEN <<"\\", Head(s)>> ELSE <<Head(s)>>)
         \o EscapeChars(Tail(s))

QuoteString(s) == <<"\"">> \o EscapeChars(s) \o <<"\"">>

KeyId == <<"{", "\"", "i", "d", "\"", ":">>
KeyText == <<",", "\"", "t", "e", "x", "t", "\"", ":">>
KeyCompleted == <<",", "\"", "c", "o", "m", "p", "l", "e", "t", "e", "d", "\"", ":">>
LitTrue == <<"t", "r", "u", "e">>
LitFalse == <<"f", "a", "l", "s", "e">>
LitNull == <<"n", "u", "l", "l">>
LitEmptyObject == <<"{", "}">>

BooleanToChars(b) == IF b THEN LitTrue ELSE LitFalse

StringifyTask(task) ==
    KeyId \o NumberToChars(task.id)
    \o KeyText \o QuoteString(task.text)
    \o KeyCompleted \o BooleanToChars(task.completed)
    \o <<"}">>

RECURSIVE StringifyElements(_)
StringifyElements(arr) ==
    IF arr = <<>> THEN <<>>
    ELSE IF Len(arr) = 1 THEN StringifyTask(arr[1])
    ELSE StringifyTask(arr[1]) \o <<",">> \o StringifyElements(Tail(arr))

\* JSON.stringify of an array of tasks
JSONStringify(arr) == <<"[">> \o StringifyElements(arr) \o <<"]">>

\* The text `lit` stands at position i of s.
Lit(s, i, lit) ==
    /\ i + Len(lit) - 1 <= Len(s)
    /\ SubSeq(s, i, i + Len(lit) - 1) = lit

NoTask == [id |-> 0, text |-> <<>>, completed |-> FALSE]

RECURSIVE ParseNumber(_, _, _)
ParseNumber(s, i, acc) ==
    IF i <= Len(s) /\ IsDigit(s[i])
    THEN ParseNumber(s, i + 1, acc * 10 + DigitVal(s[i]))
    ELSE [pos |-> i, val |-> acc]

\* From the character after the opening quote to the one after the closing quote.
RECURSIVE ParseString(_, _, _)
ParseString(s, i, acc) ==
    IF i > Len(s) THEN [ok |-> FALSE, pos |-> i, val |-> acc]
    ELSE IF s[i] = "\"" THEN [ok |-> TRUE, pos |-> i + 1, val |-> acc]
    ELSE IF s[i] = "\\"
         THEN IF i + 1 <= Len(s) /\ s[i + 1] \in {"\"", "\\"}
              THEN ParseString(s, i + 2, Append(acc, s[i + 1]))
              ELSE [ok |-> FALSE, pos |-> i, val |-> acc]
    ELSE ParseString(s, i + 1, Append(acc, s[i]))

ParseBoolean(s, i) ==
    IF Lit(s, i, LitTrue) THEN [ok |-> TRUE, pos |-> i + Len(LitTrue), val |-> TRUE]
    ELSE IF Lit(s, i, LitFalse) THEN [ok |-> TRUE, pos |-> i + Len(LitFalse), val |-> FALSE]
    ELSE [ok |-> FALSE, pos |-> i, val |-> FALSE]

\* One {"id":N,"text":"S","completed":B} object starting at position i.
ParseTask(s, i) ==
    LET bad == [ok |-> FALSE, pos |-> i, val |-> NoTask]
        iNum == i + Len(KeyId)
        num == ParseNumber(s, iNum, 0)
        iStr == num.pos + Len(KeyText) + 1
        str == ParseString(s, iStr, <<>>)
        iBool == str.pos + Len(KeyCompleted)
        bool == ParseBoolean(s, iBool)
    IN  IF ~Lit(s, i, KeyId) THEN bad
        ELSE IF num.pos = iNum THEN bad
        ELSE IF ~Lit(s, num.pos, KeyText \o <<"\"">>) THEN bad
        ELSE IF ~str.ok THEN bad
        ELSE IF ~Lit(s, str.pos, KeyCompleted) THEN bad
        ELSE IF ~bool.ok THEN bad
        ELSE IF ~Lit(s, bool.pos, <<"}">>) THEN bad
        ELSE [ok |-> TRUE, pos |-> bool.pos + 1,
              val |-> [id |-> num.val, text |-> str.val, completed |-> bool.val]]

\* The elements of an array from position i to the closing bracket, which must
\* end the text.
RECURSIVE ParseElements(_, _, _)
ParseElements(s, i, acc) ==
    LET el == ParseTask(s, i)
    IN  IF ~el.ok THEN [ok |-> FALSE, val |-> <<>>]
        ELSE IF Lit(s, el.pos, <<",">>)
             THEN ParseElements(s, el.pos + 1, Append(acc, el.val))
        ELSE IF Lit(s, el.pos, <<"]">>) /\ el.pos = Len(s)
             THEN [ok |-> TRUE, val |-> Append(acc, el.val)]
        ELSE [ok |-> FALSE, val |-> <<>>]

\* JSON.parse: ok = FALSE is a thrown SyntaxError; type is the JavaScript type
\* of the parsed value, value its elements when it is an array.
JSONParse(s) ==
    LET syntaxError == [ok |-> FALSE, type |-> "undefined", value |-> <<>>]
    IN  IF s = LitNull THEN [ok |-> TRUE, type |-> "null", value |-> <<>>]
        ELSE IF s = LitEmptyObject THEN [ok |-> TRUE, type |-> "object", value |-> <<>>]
        ELSE IF s # <<>> /\ ParseNumber(s, 1, 0).pos = Len(s) + 1
             THEN [ok |-> TRUE, type |-> "number", value |-> <<>>]
        ELSE IF s = <<"[", "]">> THEN [ok |-> TRUE, type |-> "array", value |-> <<>>]
        ELSE IF Lit(s, 1, <<"[">>)
             THEN LET els == ParseElements(s, 2, <<>>)
                  IN  IF els.ok THEN [ok |-> TRUE, type |-> "array", value |-> els.val]
                      ELSE syntaxError
        ELSE syntaxError

\* ---------------------------------------------------------------- storage
\* An absent key: localStorage.getItem returns null.
NoItem == [present |-> FALSE, value |-> <<>>]

SetItem(text) == [present |-> TRUE, value |-> text]

\* if (storedTodos): null and "" are falsy, every other string is truthy.
Truthy(item) == item.present /\ item.value # <<>>

\* Mutant: the array is saved as it was before its last element was pushed.
SaveTasks_BeforePush(arr) == SetItem(JSONStringify(SubSeq(arr, 1, Len(arr) - 1)))

\* saveTasks: what the slot holds after it.
SaveTasks(arr) == SetItem(JSONStringify(arr))

\* loadTasks: the value it binds to `todos`, or the SyntaxError it lets through.
LoadTasks(item) ==
    IF Truthy(item) THEN JSONParse(item.value)
    ELSE [ok |-> TRUE, type |-> "array", value |-> <<>>]

\* ---------------------------------------------------------------- render
\* Mutant: the query is compared as typed.
SearchQuery_AsTyped(value) == value

SearchQuery(value) == ToLowerCase(value)

MatchesSearch(task, searchQuery) == Includes(ToLowerCase(task.text), searchQuery)

\* Mutant: the row does not get the class of a completed task.
RenderRow_NoCompleted(task, searchQuery) ==
    [id |-> task.id,
     text |-> task.text,
     hidden |-> ~MatchesSearch(task, searchQuery),
     completed |-> FALSE]

RenderRow(task, searchQuery) ==
    [id |-> task.id,
     text |-> task.text,
     hidden |-> ~MatchesSearch(task, searchQuery),
     completed |-> task.completed]

\* Mutant: a task that does not match the query gets no row.
RenderTasks_SkipHidden(arr, value) ==
    SelectSeq([i \in 1..Len(arr) |-> RenderRow(arr[i], ToLowerCase(value))],
              LAMBDA row : ~row.hidden)

\* renderTasks: the rows of taskList after it.
RenderTasks(arr, value) ==
    [i \in 1..Len(arr) |-> RenderRow(arr[i], SearchQuery(value))]

\* ---------------------------------------------------------------- store
\* Mutant: the empty text is not rejected.
IsEmptyText_Never(text) == FALSE

IsEmptyText(text) == text = <<>>

NewTask(clock, text) == [id |-> clock, text |-> text, completed |-> FALSE]

\* Mutant: the new task is put first.
Push_Unshift(arr, task) == <<task>> \o arr

Push(arr, task) == Append(arr, task)

\* Array.prototype.findIndex by id: the 0-based index of the first match, or -1.
FindIndex(arr, id) ==
    IF \E i \in 1..Len(arr) : arr[i].id = id
    THEN (CHOOSE i \in 1..Len(arr) :
              /\ arr[i].id = id
              /\ \A j \in 1..(i - 1) : arr[j].id # id) - 1
    ELSE -1

\* Mutant: the flag is set instead of flipped.
Flip_SetTrue(completed) == TRUE

Flip(completed) == ~completed

ToggleAt(arr, taskIndex) ==
    [arr EXCEPT ![taskIndex + 1].completed = Flip(arr[taskIndex + 1].completed)]

\* Mutant: the filter keeps the matching tasks.
KeepTask_Inverted(task, id) == task.id = id

KeepTask(task, id) == task.id # id

\* Mutant: the kept tasks come out in reverse order.
Filter_Reversed(arr, id) ==
    LET kept == SelectSeq(arr, LAMBDA task : task.id # id)
    IN  [i \in 1..Len(kept) |-> kept[Len(kept) + 1 - i]]

RECURSIVE Filter(_, _)
Filter(arr, id) ==
    IF arr = <<>> THEN <<>>
    ELSE IF KeepTask(Head(arr), id) THEN <<Head(arr)>> \o Filter(Tail(arr), id)
    ELSE Filter(Tail(arr), id)

\* ---------------------------------------------------------------- inputs
\* What the user types into the task field.
TaskInputs ==
    { <<>>,
      <<" ", " ">>,
      <<" ", "A">>,
      <<"a", " ", "\"", "B", " ">> }

\* What the user types into the search field.
SearchInputs ==
    { <<>>,
      <<"A">>,
      <<"\"", "b">> }

\* The ids toggleTaskCompletion and removeTask are called with.
Ids == (StartClock - 1)..MaxClock

\* Collections an earlier session of the page saved.
PersistedCollections ==
    { <<>>,
      <<[id |-> StartClock - 1, text |-> <<"A">>, completed |-> TRUE]>> }

\* Slot contents that are no saved collection: a truncated write, and JSON
\* values that are not arrays.
CorruptItems ==
    { SetItem(<<"[">>),
      SetItem(LitNull),
      SetItem(LitEmptyObject),
      SetItem(<<"7">>) }

InitialItems ==
    {NoItem, SetItem(<<>>)}
    \cup CorruptItems
    \cup {SaveTasks(c) : c \in PersistedCollections}

\* ---------------------------------------------------------------- log
NoPre == [todos |-> <<>>, storage |-> NoItem, input |-> <<>>]

Snapshot(t) == [todos |-> todos[t], storage |-> storage, input |-> inputValue[t]]

Call(op, t, id, alert) ==
    [op |-> op, tab |-> t, id |-> id, alert |-> alert,
     twice |-> last.op = op /\ last.tab = t /\ last.id = id]

\* What init() does: loadTasks, then renderTasks, then setupEventListeners,
\* up to the statement that throws.
InitSteps(loaded) ==
    IF ~loaded.ok THEN <<"loadTasks">>
    ELSE IF loaded.type # "array" THEN <<"loadTasks", "renderTasks">>
    ELSE <<"loadTasks", "renderTasks", "setupEventListeners">>

\* What the search field's input listener does.
SearchSteps == <<"renderTasks">>

\* What addTask() does with the trimmed text.
AddTaskSteps(text) ==
    IF IsEmptyText(text) THEN <<"alert">>
    ELSE <<"push", "saveTasks", "renderTasks", "clearInput">>

\* What toggleTaskCompletion() does with the index it found.
ToggleSteps(taskIndex) ==
    IF taskIndex # -1 THEN <<"flip", "saveTasks", "renderTasks">> ELSE <<>>

\* What removeTask() does.
RemoveSteps == <<"filter", "saveTasks", "renderTasks">>

\* ---------------------------------------------------------------- actions
Init ==
    /\ todos = [t \in Tabs |-> <<>>]
    /\ todosType = [t \in Tabs |-> "array"]
    /\ inputValue = [t \in Tabs |-> <<>>]
    /\ searchValue = [t \in Tabs |-> <<>>]
    /\ rows = [t \in Tabs |-> <<>>]
    /\ phase = [t \in Tabs |-> IF t = "A" THEN "start" ELSE "closed"]
    /\ error = [t \in Tabs |-> "none"]
    /\ storage \in InitialItems
    /\ now = StartClock
    /\ last = [op |-> "load", tab |-> "A", id |-> 0, alert |-> FALSE, twice |-> FALSE]
    /\ pre = NoPre
    /\ steps = <<>>
    /\ added = {}
    /\ removed = {}

\* init(): loadTasks, renderTasks, setupEventListeners.
InitPage(t) ==
    /\ phase[t] = "start"
    /\ LET loaded == LoadTasks(storage)
       IN  IF ~loaded.ok
           THEN \* JSON.parse throws out of loadTasks and init
                /\ phase' = [phase EXCEPT ![t] = "crashed"]
                /\ error' = [error EXCEPT ![t] = "SyntaxError"]
                /\ UNCHANGED <<todos, todosType, rows>>
           ELSE IF loaded.type # "array"
           THEN \* todos.forEach throws out of renderTasks and init
                /\ todos' = [todos EXCEPT ![t] = loaded.value]
                /\ todosType' = [todosType EXCEPT ![t] = loaded.type]
                /\ rows' = [rows EXCEPT ![t] = <<>>]
                /\ phase' = [phase EXCEPT ![t] = "crashed"]
                /\ error' = [error EXCEPT ![t] = "TypeError"]
           ELSE /\ todos' = [todos EXCEPT ![t] = loaded.value]
                /\ todosType' = [todosType EXCEPT ![t] = loaded.type]
                /\ rows' = [rows EXCEPT ![t] = RenderTasks(loaded.value, searchValue[t])]
                /\ phase' = [phase EXCEPT ![t] = "ready"]
                /\ UNCHANGED error
    /\ last' = Call("init", t, 0, FALSE)
    /\ pre' = Snapshot(t)
    /\ steps' = InitSteps(LoadTasks(storage))
    /\ UNCHANGED <<inputValue, searchValue, storage, now>>

\* The user edits the task field (no listener runs).
TypeTask(t, value) ==
    /\ phase[t] = "ready"
    /\ inputValue[t] # value
    /\ inputValue' = [inputValue EXCEPT ![t] = value]
    /\ last' = Call("type", t, 0, FALSE)
    /\ pre' = NoPre
    /\ steps' = <<>>
    /\ UNCHANGED <<todos, todosType, searchValue, rows, phase, error, storage, now>>

\* Mutant: the search listener runs a handler that also saves.
SearchInput_Saves(t, value) ==
    /\ phase[t] = "ready"
    /\ searchValue[t] # value
    /\ searchValue' = [searchValue EXCEPT ![t] = value]
    /\ storage' = SaveTasks(todos[t])
    /\ rows' = [rows EXCEPT ![t] = RenderTasks(todos[t], value)]
    /\ last' = Call("search", t, 0, FALSE)
    /\ pre' = Snapshot(t)
    /\ steps' = <<"saveTasks", "renderTasks">>
    /\ UNCHANGED <<todos, todosType, inputValue, phase, error, now>>

\* The user edits the search field: the input listener runs renderTasks.
SearchInput(t, value) ==
    /\ phase[t] = "ready"
    /\ searchValue[t] # value
    /\ searchValue' = [searchValue EXCEPT ![t] = value]
    /\ rows' = [rows EXCEPT ![t] = RenderTasks(todos[t], value)]
    /\ last' = Call("search", t, 0, FALSE)
    /\ pre' = Snapshot(t)
    /\ steps' = SearchSteps
    /\ UNCHANGED <<todos, todosType, inputValue, phase, error, storage, now>>

\* addTask(), from the button's click or Enter in the task field.
AddTask(t) ==
    /\ phase[t] = "ready"
    /\ LET text == Trim(inputValue[t])
       IN  IF IsEmptyText(text)
           THEN /\ last' = Call("add", t, 0, TRUE)
                /\ UNCHANGED <<todos, storage, rows, inputValue>>
           ELSE /\ Len(todos[t]) < MaxTasks
                /\ LET pushed == Push(todos[t], NewTask(now, text))
                   IN  /\ todos' = [todos EXCEPT ![t] = pushed]
                       /\ storage' = SaveTasks(pushed)
                       /\ rows' = [rows EXCEPT ![t] = RenderTasks(pushed, searchValue[t])]
                /\ inputValue' = [inputValue EXCEPT ![t] = <<>>]
                /\ last' = Call("add", t, now, FALSE)
    /\ pre' = Snapshot(t)
    /\ steps' = AddTaskSteps(Trim(inputValue[t]))
    /\ UNCHANGED <<todosType, searchValue, phase, error, now>>

\* toggleTaskCompletion(id)
ToggleTaskCompletion(t, id) ==
    /\ phase[t] = "ready"
    /\ LET taskIndex == FindIndex(todos[t], id)
       IN  IF taskIndex # -1
           THEN LET toggled == ToggleAt(todos[t], taskIndex)
                IN  /\ todos' = [todos EXCEPT ![t] = toggled]
                    /\ storage' = SaveTasks(toggled)
                    /\ rows' = [rows EXCEPT ![t] = RenderTasks(toggled, searchValue[t])]
           ELSE UNCHANGED <<todos, storage, rows>>
    /\ last' = Call("toggle", t, id, FALSE)
    /\ pre' = Snapshot(t)
    /\ steps' = ToggleSteps(FindIndex(todos[t], id))
    /\ UNCHANGED <<todosType, inputValue, searchValue, phase, error, now>>

\* removeTask(id)
RemoveTask(t, id) ==
    /\ phase[t] = "ready"
    /\ LET filtered == Filter(todos[t], id)
       IN  /\ todos' = [todos EXCEPT ![t] = filtered]
           /\ storage' = SaveTasks(filtered)
           /\ rows' = [rows EXCEPT ![t] = RenderTasks(filtered, searchValue[t])]
    /\ last' = Call("remove", t, id, FALSE)
    /\ pre' = Snapshot(t)
    /\ steps' = RemoveSteps
    /\ UNCHANGED <<todosType, inputValue, searchValue, phase, error, now>>

\* A millisecond passes.
Tick ==
    /\ now < MaxClock
    /\ now' = now + 1
    /\ last' = [op |-> "tick", tab |-> "A", id |-> 0, alert |-> FALSE, twice |-> FALSE]
    /\ pre' = NoPre
    /\ steps' = <<>>
    /\ UNCHANGED <<todos, todosType, inputValue, searchValue, rows, phase, error, storage>>

\* The user reloads the page: its script state and its document start afresh,
\* the slot stays.
ReloadPage(t) ==
    /\ phase[t] \in {"ready", "crashed"}
    /\ todos' = [todos EXCEPT ![t] = <<>>]
    /\ todosType' = [todosType EXCEPT ![t] = "array"]
    /\ inputValue' = [inputValue EXCEPT ![t] = <<>>]
    /\ searchValue' = [searchValue EXCEPT ![t] = <<>>]
    /\ rows' = [rows EXCEPT ![t] = <<>>]
    /\ phase' = [phase EXCEPT ![t] = "start"]
    /\ error' = [error EXCEPT ![t] = "none"]
    /\ last' = Call("reload", t, 0, FALSE)
    /\ pre' = NoPre
    /\ steps' = <<>>
    /\ UNCHANGED <<storage, now>>

\* The log of the pages sharing the slot is kept by SpecTabs only.
sharedLog == <<added, removed>>

Next ==
    \/ \E t \in Tabs : InitPage(t) /\ UNCHANGED sharedLog
    \/ \E t \in Tabs, value \in TaskInputs : TypeTask(t, value) /\ UNCHANGED sharedLog
    \/ \E t \in Tabs, value \in SearchInputs : SearchInput(t, value) /\ UNCHANGED sharedLog
    \/ \E t \in Tabs : AddTask(t) /\ UNCHANGED sharedLog
    \/ \E t \in Tabs, id \in Ids : ToggleTaskCompletion(t, id) /\ UNCHANGED sharedLog
    \/ \E t \in Tabs, id \in Ids : RemoveTask(t, id) /\ UNCHANGED sharedLog
    \/ \E t \in Tabs : ReloadPage(t) /\ UNCHANGED sharedLog
    \/ Tick /\ UNCHANGED sharedLog

Spec == Init /\ [][Next]_vars

\* ------------------------------------------------- two pages on one slot
\* The id and text by which the shared log knows a task.
KeyOf(task) == [id |-> task.id, text |-> task.text]

\* What the user types into the task field of either page.
TabsInputs == { <<" ", "A">> }

\* Both pages are open on the same origin and about to run init().
InitTabs ==
    /\ todos = [t \in Tabs |-> <<>>]
    /\ todosType = [t \in Tabs |-> "array"]
    /\ inputValue = [t \in Tabs |-> <<>>]
    /\ searchValue = [t \in Tabs |-> <<>>]
    /\ rows = [t \in Tabs |-> <<>>]
    /\ phase = [t \in Tabs |-> "start"]
    /\ error = [t \in Tabs |-> "none"]
    /\ storage \in {NoItem} \cup {SaveTasks(c) : c \in PersistedCollections}
    /\ now = StartClock
    /\ last = [op |-> "load", tab |-> "A", id |-> 0, alert |-> FALSE, twice |-> FALSE]
    /\ pre = NoPre
    /\ steps = <<>>
    /\ added = {}
    /\ removed = {}

\* addTask() in page t, logged.
TabsAddTask(t) ==
    /\ AddTask(t)
    /\ Len(todos[t]) < MaxTabTasks
    /\ LET text == Trim(inputValue[t])
           key == KeyOf(NewTask(now, text))
       IN  IF IsEmptyText(text) THEN UNCHANGED sharedLog
           ELSE /\ added' = added \cup {key}
                /\ removed' = removed \ {key}

\* removeTask(id) in page t, logged.
TabsRemoveTask(t, id) ==
    /\ RemoveTask(t, id)
    /\ LET gone == {KeyOf(todos[t][i]) : i \in {j \in 1..Len(todos[t]) : todos[t][j].id = id}}
       IN  /\ removed' = removed \cup gone
           /\ added' = added \ gone

NextTabs ==
    \/ \E t \in Tabs : InitPage(t) /\ UNCHANGED sharedLog
    \/ \E t \in Tabs, value \in TabsInputs : TypeTask(t, value) /\ UNCHANGED sharedLog
    \/ \E t \in Tabs : TabsAddTask(t)
    \/ \E t \in Tabs, id \in Ids : ToggleTaskCompletion(t, id) /\ UNCHANGED sharedLog
    \/ \E t \in Tabs, id \in Ids : TabsRemoveTask(t, id)
    \/ Tick /\ UNCHANGED sharedLog

SpecTabs == InitTabs /\ [][NextTabs]_vars

\* ---------------------------------------------------------------- properties
\* The ids of a collection.
IdsOf(arr) == {arr[i].id : i \in 1..Len(arr)}

\* r is s without its leading and trailing white space.
IsTrimOf(r, s) ==
    \E i \in 0..Len(s), j \in 0..Len(s) :
        /\ i + j <= Len(s)
        /\ r = SubSeq(s, i + 1, Len(s) - j)
        /\ \A k \in 1..i : s[k] = " "
        /\ \A k \in (Len(s) - j + 1)..Len(s) : s[k] = " "
        /\ r # <<>> => (r[1] # " " /\ r[Len(r)] # " ")

\* Two characters that are equal up to case.
SameLetter(c, d) ==
    \/ c = d
    \/ {c, d} \in {{"A", "a"}, {"B", "b"}}

\* The lowercased text contains the lowercased query.
ContainsIgnoringCase(text, q) ==
    \E k \in 0..(Len(text) - Len(q)) :
        \A j \in 1..Len(q) : SameLetter(text[k + j], q[j])

\* The page that ran the last call, and its collection.
Page == last.tab
Collection == todos[Page]

\* C1: an add whose trimmed input is non-empty grows the collection by exactly
\* one: the old tasks keep their place and content, and the new last task has
\* the trimmed input as text and completed = false.
C1_AddAppendsOne ==
    (last.op = "add" /\ ~IsTrimOf(<<>>, pre.input)) =>
        /\ Len(Collection) = Len(pre.todos) + 1
        /\ SubSeq(Collection, 1, Len(pre.todos)) = pre.todos
        /\ IsTrimOf(Collection[Len(Collection)].text, pre.input)
        /\ Collection[Len(Collection)].completed = FALSE

C1_Witness ==
    /\ last.op = "add"
    /\ Len(pre.todos) = 1
    /\ Len(Collection) = 2
    /\ pre.input = <<"a", " ", "\"", "B", " ">>
    /\ pre.todos[1].completed

\* C2: in every state of a running page the ids of its collection are pairwise
\* distinct (the clock the ids come from never goes back).
C2_IdsUnique ==
    \A t \in Tabs :
        phase[t] = "ready" =>
            \A i, j \in 1..Len(todos[t]) :
                i # j => todos[t][i].id # todos[t][j].id

\* C3: toggle(t.id) for a task t of the collection flips the flag of exactly
\* the tasks with that id, t among them, and changes nothing else.
C3_ToggleFlipsThatTask ==
    (last.op = "toggle" /\ last.id \in IdsOf(pre.todos)) =>
        /\ Len(Collection) = Len(pre.todos)
        /\ \A i \in 1..Len(pre.todos) :
              Collection[i] =
                  IF pre.todos[i].id = last.id
                  THEN [pre.todos[i] EXCEPT !.completed = ~pre.todos[i].completed]
                  ELSE pre.todos[i]

\* C4: remove(id) for an id of the collection makes it one task shorter, leaves
\* no task with that id, and keeps every other task, in order.
C4_RemoveDropsOne ==
    (last.op = "remove" /\ last.id \in IdsOf(pre.todos)) =>
        /\ Len(Collection) = Len(pre.todos) - 1
        /\ last.id \notin IdsOf(Collection)
        /\ Collection = SelectSeq(pre.todos, LAMBDA task : task.id # last.id)

\* C5: whenever a page runs, loading from the slot yields its collection: the
\* same tasks (id, text, completed) in the same order.
C5_LoadYieldsCollection ==
    \A t \in Tabs :
        phase[t] = "ready" =>
            LET loaded == LoadTasks(storage)
            IN  /\ loaded.ok
                /\ loaded.type = "array"
                /\ loaded.value = todos[t]

C5_Witness ==
    /\ phase["A"] = "ready"
    /\ last.op = "toggle"
    /\ Len(todos["A"]) = 2
    /\ todos["A"] # pre.todos
    /\ todos["A"][1].id = StartClock - 1
    /\ todos["A"][2].text = <<"a", " ", "\"", "B">>
    /\ todos["A"][2].completed

\* C6: whatever the slot holds at startup that is no saved collection (absent,
\* empty, unparseable, or not an array), init completes with an empty
\* collection and without an error.
C6_LoadNeverFails ==
    (last.op = "init" /\ pre.storage \in ({NoItem, SetItem(<<>>)} \cup CorruptItems)) =>
        /\ phase[Page] = "ready"
        /\ error[Page] = "none"
        /\ todosType[Page] = "array"
        /\ Collection = <<>>

\* C7: an add whose input is empty or only white space alerts the user and
\* leaves the collection, the slot and the task field as they were.
C7_EmptyAddRejected ==
    (last.op = "add" /\ IsTrimOf(<<>>, pre.input)) =>
        /\ last.alert
        /\ Collection = pre.todos
        /\ storage = pre.storage
        /\ inputValue[Page] = pre.input

C7_Witness ==
    /\ last.op = "add"
    /\ last.alert
    /\ pre.input = <<" ", " ">>
    /\ Len(Collection) = 1
    /\ storage.present

\* C8: toggle and remove with an id that is not in the collection raise no
\* error and leave the collection as it was.
C8_AbsentIdNoOp ==
    (last.op \in {"toggle", "remove"} /\ last.id \notin IdsOf(pre.todos)) =>
        /\ Collection = pre.todos
        /\ phase[Page] = "ready"
        /\ error[Page] = "none"

C8_Witness ==
    /\ last.op = "remove"
    /\ last.id \notin IdsOf(pre.todos)
    /\ Len(pre.todos) = 2

\* C9: after every render a row is hidden exactly when the lowercased text of
\* its task does not contain the lowercased query; the empty query hides none.
C9_HiddenExactlyNonMatching ==
    \A t \in Tabs :
        phase[t] = "ready" =>
            /\ Len(rows[t]) = Len(todos[t])
            /\ \A i \in 1..Len(todos[t]) :
                  rows[t][i].hidden <=>
                      ~ContainsIgnoringCase(todos[t][i].text, searchValue[t])
            /\ searchValue[t] = <<>> =>
                  \A i \in 1..Len(rows[t]) : ~rows[t][i].hidden

C9_Witness ==
    /\ phase["A"] = "ready"
    /\ searchValue["A"] = <<"\"", "b">>
    /\ Len(rows["A"]) = 2
    /\ rows["A"][1].hidden
    /\ ~rows["A"][2].hidden

\* C10: a second toggle of the same task right after the first restores the
\* collection and the slot to what they were before the first.
C10_ToggleTwiceRestores ==
    [][(/\ last.op = "toggle"
        /\ last.id \in IdsOf(pre.todos)
        /\ last'.op = "toggle"
        /\ last'.twice)
       => (/\ todos'[last.tab] = pre.todos
           /\ storage' = pre.storage)]_vars

C10_Witness ==
    /\ last.op = "toggle"
    /\ last.twice
    /\ last.id \in IdsOf(Collection)
    /\ Len(Collection) = 2
    /\ Collection[1].id # Collection[2].id

\* C11: after every render the list has exactly one row per task of the
\* collection, in collection order, hidden tasks included: the row count is
\* the collection size.
C11_OneRowPerTask ==
    \A t \in Tabs :
        phase[t] = "ready" =>
            /\ Len(rows[t]) = Len(todos[t])
            /\ \A i \in 1..Len(todos[t]) :
                  /\ rows[t][i].id = todos[t][i].id
                  /\ rows[t][i].text = todos[t][i].text

C11_Witness ==
    /\ phase["A"] = "ready"
    /\ last.op = "search"
    /\ Len(todos["A"]) = 2
    /\ Len(rows["A"]) = 2
    /\ rows["A"][1].hidden
    /\ rows["A"][1].completed
    /\ rows["A"][1].text # rows["A"][2].text

\* C12: a change of the search field only renders: the collection and the
\* slot are what they were, and saveTasks is not called.
C12_SearchOnlyRenders ==
    last.op = "search" =>
        /\ Collection = pre.todos
        /\ storage = pre.storage
        /\ steps = <<"renderTasks">>
        /\ \A i \in 1..Len(steps) : steps[i] # "saveTasks"

C12_Witness ==
    /\ last.op = "search"
    /\ ~storage.present
    /\ searchValue[Page] = <<"A">>
    /\ Collection = <<>>

\* C13: every task of a running page, after any adds, toggles, removes and
\* reloads, has a non-empty text without leading or trailing white space and
\* a boolean completed.
C13_TextTrimmedFlagBoolean ==
    \A t \in Tabs :
        phase[t] = "ready" =>
            \A i \in 1..Len(todos[t]) :
                /\ todos[t][i].text # <<>>
                /\ todos[t][i].text[1] # " "
                /\ todos[t][i].text[Len(todos[t][i].text)] # " "
                /\ todos[t][i].completed \in BOOLEAN

C13_Witness ==
    /\ phase["A"] = "ready"
    /\ last.op = "init"
    /\ Len(todos["A"]) = 2
    /\ todos["A"][1].text = <<"a", " ", "\"", "B">>
    /\ todos["A"][1].completed
    /\ todos["A"][2].text = <<"A">>

\* The id and text of each task, in order.
KeysOf(arr) == [i \in 1..Len(arr) |-> [id |-> arr[i].id, text |-> arr[i].text]]

\* C14: display order is insertion order.  The tasks stand in the order of
\* their creation times and the rows in the order of the tasks; an add puts
\* the new task last, a toggle keeps every task in its place, and a remove
\* keeps the remaining tasks in their order.
C14_InsertionOrder ==
    /\ \A t \in Tabs :
          phase[t] = "ready" =>
              /\ \A i, j \in 1..Len(todos[t]) :
                    i < j => todos[t][i].id <= todos[t][j].id
              /\ KeysOf(rows[t]) = KeysOf(todos[t])
    /\ (last.op = "add" /\ ~last.alert) =>
          SubSeq(KeysOf(Collection), 1, Len(pre.todos)) = KeysOf(pre.todos)
    /\ last.op = "toggle" => KeysOf(Collection) = KeysOf(pre.todos)
    /\ last.op = "remove" =>
          KeysOf(Collection) =
              SelectSeq(KeysOf(pre.todos), LAMBDA key : key.id # last.id)

C14_Witness ==
    /\ last.op = "remove"
    /\ Len(pre.todos) = 3
    /\ last.id = pre.todos[2].id
    /\ Len(Collection) = 2
    /\ Collection[1].id < Collection[2].id
    /\ Collection[1].text # Collection[2].text

\* The position of a step in the last call, 0 when it has none.
StepAt(names) ==
    IF \E i \in 1..Len(steps) : steps[i] \in names
    THEN CHOOSE i \in 1..Len(steps) : steps[i] \in names
    ELSE 0

\* C15: the view is never stale.  In a running page the rows are the
\* projection of the collection under the query in the search field (one row
\* per task with its id, text, hidden and completed flags), and a handler that
\* mutates the collection saves it after the mutation and before it renders.
C15_ViewNeverStale ==
    /\ \A t \in Tabs :
          phase[t] = "ready" =>
              rows[t] =
                  [i \in 1..Len(todos[t]) |->
                      [id |-> todos[t][i].id,
                       text |-> todos[t][i].text,
                       hidden |-> ~ContainsIgnoringCase(todos[t][i].text, searchValue[t]),
                       completed |-> todos[t][i].completed]]
    /\ (last.op \in {"add", "toggle", "remove"} /\ Collection # pre.todos) =>
          /\ StepAt({"push", "flip", "filter"}) > 0
          /\ StepAt({"push", "flip", "filter"}) < StepAt({"saveTasks"})
          /\ StepAt({"saveTasks"}) < StepAt({"renderTasks"})
          /\ LoadTasks(storage).value = Collection

C15_Witness ==
    /\ last.op = "toggle"
    /\ Collection # pre.todos
    /\ searchValue[Page] = <<"\"", "b">>
    /\ Len(rows[Page]) = 3
    /\ rows[Page][1].hidden
    /\ rows[Page][3].completed
    /\ ~rows[Page][3].hidden

\* The tasks the slot holds, by id and text.
SlotKeys == {KeyOf(LoadTasks(storage).value[i]) : i \in 1..Len(LoadTasks(storage).value)}

\* C16: with two pages on the slot, both hydrated by their init, the slot
\* holds every task a page added and no page removed, and no task a page
\* removed.
C16_SlotKeepsTasks ==
    (\A t \in Tabs : phase[t] = "ready") =>
        /\ added \subseteq SlotKeys
        /\ SlotKeys \cap removed = {}

====
